---- MODULE Spec2Model ----
(* Model of the Genius API proxy worker: the DOM flattener (flattenGenius)   *)
(* and the two request handlers (the gated handler of src/worker.js and the  *)
(* ungated handler of src/unnamed/part_000).                                 *)
EXTENDS Integers, Sequences, FiniteSets, TLC

VARIABLES dom, result, flattened,        \* flattenGenius: input, output, applied
          variant, env, cache, pending,  \* deployed handler, its bindings, caches.default, puts in flight
          last, lastWrite                \* last request handled, fate of the put it scheduled

fvars == <<dom, result, flattened>>
pvars == <<variant, env, cache, pending, last, lastWrite>>
vars == <<dom, result, flattened, variant, env, cache, pending, last, lastWrite>>

(* ------------------------------------------------------------------------ *)
(* JavaScript values that are not strings.                                   *)
NULL == "null"
UNDEFINED == "undefined"

(* ------------------------------------------------------------------------ *)
(* Bounds of the DOM inputs.                                                 *)
MaxNodes == 4

(* ------------------------------------------------------------------------ *)
(* DOM nodes.  A text node (a JavaScript string) is [tag |-> "#text"]; the   *)
(* field id is the node's preorder number and is never read by walk: it      *)
(* makes texts, image urls and hrefs pairwise distinct.                      *)
ElementTags == {"p", "blockquote", "b", "i", "a", "div"}

TextNode(i) == [tag |-> "#text", id |-> i, text |-> "t" \o ToString(i)]

BrNode(i) == [tag |-> "br", id |-> i, attributes |-> <<>>, children |-> <<>>]

ImgNode(i) ==
    [tag |-> "img", id |-> i,
     attributes |-> [src |-> "i" \o ToString(i), alt |-> "alt", width |-> 1, height |-> 2],
     children |-> <<>>]

Element(t, i, withHref, kids) ==
    [tag |-> t, id |-> i,
     attributes |-> IF t = "a" /\ withHref THEN [href |-> "h" \o ToString(i)] ELSE <<>>,
     children |-> kids]

ElementsAt(i, kids) ==
    {Element(t, i, FALSE, kids) : t \in ElementTags} \cup {Element("a", i, TRUE, kids)}

NewNodes(i) == {TextNode(i), BrNode(i), ImgNode(i)} \cup ElementsAt(i, <<>>)

NullNode == [tag |-> "#null", id |-> 0]

RECURSIVE Size(_)
Size(node) ==
    IF node.tag \in {"#null", "#text"}
    THEN 1
    ELSE LET RECURSIVE Sum(_)
             Sum(i) == IF i > Len(node.children) THEN 0 ELSE Size(node.children[i]) + Sum(i + 1)
         IN  1 + Sum(1)

(* The nodes on the rightmost branch of a DOM that can take a further child, *)
(* by depth: a DOM grows in document order, one node at a time.              *)
RECURSIVE SpineDepths(_, _)
SpineDepths(node, d) ==
    IF node.tag \notin ElementTags
    THEN {}
    ELSE {d} \cup (IF Len(node.children) = 0
                   THEN {}
                   ELSE SpineDepths(node.children[Len(node.children)], d + 1))

RECURSIVE AttachRight(_, _, _)
AttachRight(node, d, new) ==
    IF d = 0
    THEN [node EXCEPT !.children = Append(@, new)]
    ELSE [node EXCEPT !.children[Len(node.children)] = AttachRight(@, d - 1, new)]

(* ------------------------------------------------------------------------ *)
(* flattenGenius.  walk returns the spans it hands to its caller together    *)
(* with the records it pushed to result, in push order.                      *)
Attr(node, name) ==
    IF name \in DOMAIN node.attributes THEN node.attributes[name] ELSE UNDEFINED

(* line 26-35: an img pushes an image record and hands no span to its caller *)
imgAsSpan(node) ==
    [spans |-> <<[type |-> "image", url |-> Attr(node, "src"), alt |-> Attr(node, "alt"),
                  width |-> Attr(node, "width"), height |-> Attr(node, "height")]>>,
     pushed |-> <<>>]

walkImg(node) ==
    [spans |-> <<>>,
     pushed |-> <<[type |-> "image", url |-> Attr(node, "src"), alt |-> Attr(node, "alt"),
                   width |-> Attr(node, "width"), height |-> Attr(node, "height")]>>]

(* line 41: the link handed to the children of an inline styling tag *)
newLinkIfPresent(node, currentLink) ==
    IF node.tag = "a" /\ "href" \in DOMAIN node.attributes
    THEN node.attributes.href ELSE currentLink

newLink(node, currentLink) ==
    IF node.tag = "a" THEN Attr(node, "href") ELSE currentLink

(* line 44: children of an inline styling tag are walked as inside a block *)
inlineInsideUnchanged(isInsideBlock) == isInsideBlock

inlineInside(isInsideBlock) == TRUE

(* line 51: the nesting flag handed to the children of any other tag *)
childInsideUnchanged(isBlockTag, isInsideBlock) == isInsideBlock

childInside(isBlockTag, isInsideBlock) == IF isBlockTag THEN TRUE ELSE isInsideBlock

RECURSIVE walk(_, _, _, _), walkChildren(_, _, _, _, _)
walk(node, currentStyles, currentLink, isInsideBlock) ==
    IF node.tag = "#null"
    THEN [spans |-> <<>>, pushed |-> <<>>]
    ELSE IF node.tag = "#text"
    THEN [spans |-> <<[text |-> node.text, styles |-> currentStyles, link |-> currentLink]>>,
          pushed |-> <<>>]
    ELSE IF node.tag = "br"
    THEN [spans |-> <<[text |-> "\n", styles |-> <<>>, link |-> NULL]>>, pushed |-> <<>>]
    ELSE IF node.tag = "img"
    THEN walkImg(node)
    ELSE IF node.tag \in {"em", "i", "b", "strong", "a"}
    THEN LET s1 == IF node.tag \in {"em", "i"}
                   THEN Append(currentStyles, "italic") ELSE currentStyles
             newStyles == IF node.tag \in {"b", "strong"} THEN Append(s1, "bold") ELSE s1
         IN  walkChildren(node.children, 1, newStyles, newLink(node, currentLink),
                          inlineInside(isInsideBlock))
    ELSE LET isBlockTag == node.tag \in {"p", "blockquote"}
             kids == walkChildren(node.children, 1, currentStyles, currentLink,
                                  childInside(isBlockTag, isInsideBlock))
             childrenSpans == kids.spans
         IN  IF isBlockTag /\ ~isInsideBlock
             THEN [spans |-> <<>>,
                   pushed |-> IF Len(childrenSpans) > 0
                              THEN Append(kids.pushed,
                                          [type |-> IF node.tag = "p" THEN "paragraph"
                                                    ELSE "blockquote",
                                           spans |-> childrenSpans])
                              ELSE kids.pushed]
             ELSE kids

walkChildren(children, i, styles, link, inside) ==
    IF i > Len(children)
    THEN [spans |-> <<>>, pushed |-> <<>>]
    ELSE LET head == walk(children[i], styles, link, inside)
             rest == walkChildren(children, i + 1, styles, link, inside)
         IN  [spans |-> head.spans \o rest.spans, pushed |-> head.pushed \o rest.pushed]

flattenGenius(d) == walk(d, <<>>, NULL, FALSE).pushed

(* ------------------------------------------------------------------------ *)
(* Requests.  A path is the pathname split at "/": the id of /song/<id> is   *)
(* kept as its sequence of characters so that \d+ is decided, not assumed.   *)
MaxPending == 1

Digits == {"0", "1", "2", "3", "4", "5", "6", "7", "8", "9"}

RootPath == <<>>
SongPath == <<"song", <<"1", "2">>>>
ArtistPath == <<"artist", <<"7">>>>
BadIdPath == <<"song", <<"1", "x">>>>
Paths == {RootPath, SongPath, ArtistPath, BadIdPath}

Methods == {"GET", "OPTIONS", "POST"}
Secrets == {NULL, "s3cret", "wrong"}
ClientIPs == {NULL, "203.0.113.9"}

Requests == [method : Methods, path : Paths, secret : Secrets, ip : ClientIPs]

(* What the upstream API answers to one call. *)
Dom1 == Element("p", 1, FALSE, <<TextNode(2)>>)
Dom2 == Element("p", 1, FALSE, <<ImgNode(2), Element("b", 3, FALSE, <<TextNode(4)>>)>>)

Failing ==
    {[ok |-> TRUE, wellFormed |-> FALSE, dom |-> NullNode],
     [ok |-> FALSE, wellFormed |-> TRUE, dom |-> NullNode]}

NoAnswer == [ok |-> FALSE, wellFormed |-> TRUE, dom |-> NullNode]

(* the answers the upstream can give to a request *)
Upstream(req) ==
    IF Len(req.path) = 0
    THEN {NoAnswer}
    ELSE IF req.path[1] = "song"
    THEN Failing \cup {[ok |-> TRUE, wellFormed |-> TRUE, dom |-> Dom1],
                       [ok |-> TRUE, wellFormed |-> TRUE, dom |-> Dom2]}
    ELSE Failing \cup {[ok |-> TRUE, wellFormed |-> TRUE, dom |-> Dom1]}

(* ------------------------------------------------------------------------ *)
(* Responses: status, body and headers.  JSON.stringify is injective on the  *)
(* data the handlers serialise, so a JSON body is kept as its data.          *)
JsonBody(data) == [json |-> data]
TextBody(text) == [text |-> text]
EmptyBody == [empty |-> TRUE]

Response(status, body, headers) == [status |-> status, body |-> body, headers |-> headers]

Header(resp, name) == IF name \in DOMAIN resp.headers THEN resp.headers[name] ELSE NULL

NoHeaders == [h \in {} |-> NULL]
NoEntry == [status |-> 0]

JsonCors == ("Content-Type" :> "application/json") @@ ("Access-Control-Allow-Origin" :> "*")
CorsOnly == ("Access-Control-Allow-Origin" :> "*")

Preflight(allowHeaders) ==
    Response(200, EmptyBody,
             ("Access-Control-Allow-Origin" :> "*")
             @@ ("Access-Control-Allow-Methods" :> "GET, OPTIONS")
             @@ ("Access-Control-Allow-Headers" :> allowHeaders)
             @@ ("Access-Control-Max-Age" :> "86400"))

(* ------------------------------------------------------------------------ *)
(* Upstream client: one call, projected and flattened, or an Error.          *)
fetchGeniusSong(up) ==
    IF ~up.ok
    THEN [threw |-> TRUE, message |-> "Genius API error: 503 Service Unavailable"]
    ELSE IF ~up.wellFormed
    THEN [threw |-> TRUE, message |-> "Cannot read properties of undefined"]
    ELSE [threw |-> FALSE,
          data |-> [title |-> "title", description |-> flattenGenius(up.dom), album |-> NULL]]

fetchGeniusArtist(up) ==
    IF ~up.ok
    THEN [threw |-> TRUE, message |-> "Genius API error: 503 Service Unavailable"]
    ELSE IF ~up.wellFormed
    THEN [threw |-> TRUE, message |-> "Cannot read properties of undefined"]
    ELSE [threw |-> FALSE,
          data |-> [name |-> "name", description |-> flattenGenius(up.dom), url |-> "url"]]

IsDigits(s) == Len(s) >= 1 /\ \A i \in 1..Len(s) : s[i] \in Digits
songMatch(path) == Len(path) = 2 /\ path[1] = "song" /\ IsDigits(path[2])
artistMatch(path) == Len(path) = 2 /\ path[1] = "artist" /\ IsDigits(path[2])
isRoot(path) == path = RootPath

(* ------------------------------------------------------------------------ *)
(* The gated handler (src/worker.js).  Its result names the response and the *)
(* calls it made on the way: limiter key, cache.match, upstream, cache.put.  *)
NoCall == "none"

Outcome(resp, limiter, matched, upstream, put) ==
    [resp |-> resp, limiter |-> limiter, matched |-> matched, upstream |-> upstream, put |-> put]

secretOptional(clientSecret, secret) == secret # UNDEFINED /\ clientSecret # secret

secretMismatch(clientSecret, secret) == clientSecret # secret

clientKeyNoFallback(req) == req.ip

clientKey(req) == IF req.ip # NULL THEN req.ip ELSE "anonymous"

(* caches.default is keyed by the request URL and matches GET requests only *)
cacheMatch(req) == IF req.method = "GET" THEN cache[req.path] ELSE NoEntry

hitResponseUnmarked(response) == response

hitResponse(response) ==
    [response EXCEPT !.headers = ("X-Proxy-Cache" :> "HIT") @@ response.headers]

missResponse(data) ==
    Response(200, JsonBody(data),
             JsonCors @@ ("Cache-Control" :> "public, s-maxage=86400, max-age=3600")
             @@ ("X-Proxy-Cache" :> "MISS"))

(* lines 198-232 with the put scheduled for every outcome of the execution *)
executeCachingAll(req, up) ==
    LET path == req.path
        fetched == IF songMatch(path) THEN fetchGeniusSong(up) ELSE fetchGeniusArtist(up)
        called == songMatch(path) \/ artistMatch(path)
    IN  IF called /\ fetched.threw
        THEN [resp |-> Response(500, JsonBody([error |-> fetched.message]), JsonCors),
              upstream |-> TRUE, put |-> TRUE]
        ELSE IF called
        THEN [resp |-> missResponse(fetched.data), upstream |-> TRUE, put |-> TRUE]
        ELSE IF isRoot(path)
        THEN [resp |-> missResponse([message |-> "Genius API Proxy"]),
              upstream |-> FALSE, put |-> TRUE]
        ELSE [resp |-> Response(404, JsonBody([error |-> "Not found"]), NoHeaders),
              upstream |-> FALSE, put |-> TRUE]

execute(req, up) ==
    LET path == req.path
        fetched == IF songMatch(path) THEN fetchGeniusSong(up) ELSE fetchGeniusArtist(up)
        called == songMatch(path) \/ artistMatch(path)
    IN  IF called /\ fetched.threw
        THEN [resp |-> Response(500, JsonBody([error |-> fetched.message]), JsonCors),
              upstream |-> TRUE, put |-> FALSE]
        ELSE IF called
        THEN [resp |-> missResponse(fetched.data), upstream |-> TRUE, put |-> TRUE]
        ELSE IF isRoot(path)
        THEN [resp |-> missResponse([message |-> "Genius API Proxy"]),
              upstream |-> FALSE, put |-> TRUE]
        ELSE [resp |-> Response(404, JsonBody([error |-> "Not found"]), NoHeaders),
              upstream |-> FALSE, put |-> FALSE]

gatedFetch(req, success, up) ==
    IF secretMismatch(req.secret, env.PROXY_SECRET)
    THEN Outcome(Response(401, JsonBody([error |-> "Unauthorized"]), JsonCors),
                 NoCall, FALSE, FALSE, FALSE)
    ELSE LET limiter == IF env.RATE_LIMITER THEN clientKey(req) ELSE NoCall
         IN  IF env.RATE_LIMITER /\ ~success
             THEN Outcome(Response(429, JsonBody([error |-> "Too Many Requests"]), JsonCors),
                          limiter, FALSE, FALSE, FALSE)
             ELSE IF cacheMatch(req) # NoEntry
             THEN Outcome(hitResponse(cacheMatch(req)), limiter, TRUE, FALSE, FALSE)
             ELSE IF req.method = "OPTIONS"
             THEN Outcome(Preflight("Content-Type, X-Proxy-Secret"), limiter, TRUE, FALSE, FALSE)
             ELSE IF req.method # "GET"
             THEN Outcome(Response(405, TextBody("Method not allowed"), CorsOnly),
                          limiter, TRUE, FALSE, FALSE)
             ELSE IF env.GENIUS_ACCESS_TOKEN = UNDEFINED
             THEN Outcome(Response(500, TextBody("GENIUS_ACCESS_TOKEN not configured"), NoHeaders),
                          limiter, TRUE, FALSE, FALSE)
             ELSE LET e == execute(req, up)
                  IN  Outcome(e.resp, limiter, TRUE, e.upstream, e.put)

(* ------------------------------------------------------------------------ *)
(* The ungated handler (src/unnamed/part_000): no secret, limiter or cache.  *)
ungatedJson(data) ==
    Response(200, JsonBody(data), JsonCors @@ ("Cache-Control" :> "public, max-age=3600"))

ungatedFetch(req, up) ==
    LET path == req.path
        fetched == IF songMatch(path) THEN fetchGeniusSong(up) ELSE fetchGeniusArtist(up)
        called == songMatch(path) \/ artistMatch(path)
        resp ==
            IF req.method = "OPTIONS"
            THEN Preflight("Content-Type")
            ELSE IF req.method # "GET"
            THEN Response(405, TextBody("Method not allowed"), CorsOnly)
            ELSE IF env.GENIUS_ACCESS_TOKEN = UNDEFINED
            THEN Response(500, TextBody("GENIUS_ACCESS_TOKEN not configured"), CorsOnly)
            ELSE IF called /\ fetched.threw
            THEN Response(500, JsonBody([error |-> fetched.message]), JsonCors)
            ELSE IF called
            THEN ungatedJson(fetched.data)
            ELSE IF isRoot(path)
            THEN Response(200, JsonBody([message |-> "Genius API Proxy"]), JsonCors)
            ELSE Response(404, JsonBody([error |-> "Not found. Use /song/{id} or /artist/{id}"]),
                          JsonCors)
    IN  Outcome(resp, NoCall, FALSE,
                req.method = "GET" /\ env.GENIUS_ACCESS_TOKEN # UNDEFINED /\ called, FALSE)

(* ------------------------------------------------------------------------ *)
(* The deployed worker.                                                      *)
Envs == [PROXY_SECRET : {UNDEFINED, "s3cret"}, RATE_LIMITER : BOOLEAN,
         GENIUS_ACCESS_TOKEN : {UNDEFINED, "token"}]

NoRequest == [handled |-> FALSE]

NoFlatten ==
    /\ dom = NullNode
    /\ result = <<>>
    /\ flattened = FALSE

Init ==
    /\ NoFlatten
    /\ variant \in {"gated", "ungated"}
    /\ env \in Envs
    /\ cache = [k \in Paths |-> NoEntry]
    /\ pending = <<>>
    /\ last = NoRequest
    /\ lastWrite = "none"

(* the body of the MISS answered to the same request just before, if any *)
Prior(req) ==
    IF /\ last.handled
       /\ last.req = req
       /\ last.resp.status = 200
       /\ Header(last.resp, "X-Proxy-Cache") = "MISS"
    THEN last.resp.body ELSE EmptyBody

Handled(req, success, out) ==
    [handled |-> TRUE, req |-> req, success |-> success, resp |-> out.resp,
     limiter |-> out.limiter, matched |-> out.matched, upstream |-> out.upstream,
     put |-> out.put, cached |-> cache[req.path], prior |-> Prior(req)]

(* answers are drawn only for the calls a request can reach *)
LimiterAnswers(req) ==
    IF env.RATE_LIMITER /\ req.secret = env.PROXY_SECRET THEN BOOLEAN ELSE {TRUE}

GatedUpstream(req) ==
    IF req.secret = env.PROXY_SECRET /\ req.method = "GET" /\ env.GENIUS_ACCESS_TOKEN # UNDEFINED
    THEN Upstream(req) ELSE {NoAnswer}

UngatedUpstream(req) ==
    IF req.method = "GET" /\ env.GENIUS_ACCESS_TOKEN # UNDEFINED THEN Upstream(req) ELSE {NoAnswer}

(* fetch of src/worker.js: the whole handler up to the returned response;    *)
(* the put handed to ctx.waitUntil is left in flight.                        *)
FetchGated ==
    /\ variant = "gated"
    /\ \E req \in Requests : \E success \in LimiterAnswers(req) : \E up \in GatedUpstream(req) :
         LET out == gatedFetch(req, success, up)
         IN  /\ out.put => Len(pending) < MaxPending
             /\ last' = Handled(req, success, out)
             /\ pending' = IF out.put THEN Append(pending, <<req.path, out.resp>>) ELSE pending
             /\ lastWrite' = IF out.put THEN "pending" ELSE "none"
    /\ UNCHANGED <<variant, env, cache, fvars>>

FetchUngated ==
    /\ variant = "ungated"
    /\ \E req \in Requests : \E up \in UngatedUpstream(req) :
         last' = Handled(req, TRUE, ungatedFetch(req, up))
    /\ UNCHANGED <<variant, env, cache, pending, lastWrite, fvars>>

Remove(s, i) == SubSeq(s, 1, i - 1) \o SubSeq(s, i + 1, Len(s))

(* what the settling of a put does to the response already returned: nothing *)
putAwaited(delivered, ok) ==
    IF ok THEN delivered
    ELSE [delivered EXCEPT !.resp = Response(500, JsonBody([error |-> "cache put failed"]), JsonCors)]

putSettled(delivered, ok) == delivered

Settle(i, ok) ==
    /\ pending' = Remove(pending, i)
    /\ IF i = Len(pending) /\ lastWrite = "pending"
       THEN /\ lastWrite' = (IF ok THEN "stored" ELSE "failed")
            /\ last' = putSettled(last, ok)
       ELSE UNCHANGED <<lastWrite, last>>

CachePutDone ==
    /\ \E i \in 1..Len(pending) :
         /\ cache' = [cache EXCEPT ![pending[i][1]] = pending[i][2]]
         /\ Settle(i, TRUE)
    /\ UNCHANGED <<variant, env, fvars>>

CachePutFail ==
    /\ \E i \in 1..Len(pending) : Settle(i, FALSE)
    /\ UNCHANGED <<variant, env, cache, fvars>>

Next == FetchGated \/ FetchUngated \/ CachePutDone \/ CachePutFail

Spec == Init /\ [][Next]_vars

(* ------------------------------------------------------------------------ *)
(* The last request as the claims speak of it.                               *)
GatedRequest == last.handled /\ variant = "gated"
SecretAccepted == last.req.secret = env.PROXY_SECRET
NotLimited == env.RATE_LIMITER => last.success
Status == last.resp.status
IsHit == Header(last.resp, "X-Proxy-Cache") = "HIT"
IsMiss == Header(last.resp, "X-Proxy-Cache") = "MISS"

(* C1: the gated handler answers every request whose X-Proxy-Secret is       *)
(* absent or differs from PROXY_SECRET (also when PROXY_SECRET is not        *)
(* configured) with 401 {"error":"Unauthorized"}, and makes no limiter call, *)
(* no cache lookup, no cache write and no upstream call for it; a cached     *)
(* response is never served to it.                                           *)
C1_UnauthorizedRejected ==
    (GatedRequest /\ ~SecretAccepted) =>
      /\ Status = 401
      /\ last.resp.body = JsonBody([error |-> "Unauthorized"])
      /\ last.limiter = NoCall
      /\ ~last.matched
      /\ ~last.put
      /\ ~last.upstream
      /\ ~IsHit

C1_Witness ==
    /\ GatedRequest
    /\ last.req.secret = NULL
    /\ last.req.method = "GET"
    /\ last.cached # NoEntry
    /\ Status = 401

(* C2 as stated: once a GET has been answered 200 MISS, the same authorized, *)
(* non-rate-limited GET made again is answered HIT with the body of that     *)
(* first response and without an upstream call.                              *)
C2_RepeatIsHit ==
    (/\ GatedRequest
     /\ SecretAccepted
     /\ NotLimited
     /\ last.req.method = "GET"
     /\ last.prior # EmptyBody) =>
      (IsHit /\ last.resp.body = last.prior /\ ~last.upstream)

(* C2 as amended: once the cache holds the entry written by the put of a     *)
(* MISS response, the same authorized, non-rate-limited GET is answered HIT  *)
(* with the body of that MISS response and without an upstream call.         *)
C2_CachedIsHit ==
    (/\ GatedRequest
     /\ SecretAccepted
     /\ NotLimited
     /\ last.req.method = "GET"
     /\ last.cached # NoEntry) =>
      /\ IsHit
      /\ Status = 200
      /\ last.cached.status = 200
      /\ Header(last.cached, "X-Proxy-Cache") = "MISS"
      /\ last.resp.body = last.cached.body
      /\ ~last.upstream
      /\ ~last.put

C2_Witness ==
    /\ GatedRequest
    /\ last.cached # NoEntry
    /\ IsHit
    /\ last.req.path = SongPath
    /\ last.prior = last.resp.body

(* C3: every OPTIONS request is answered 200 with an empty body and the CORS *)
(* preflight headers, in both handlers.                                      *)
C3_OptionsPreflight ==
    (last.handled /\ last.req.method = "OPTIONS") =>
      /\ Status = 200
      /\ last.resp.body = EmptyBody
      /\ Header(last.resp, "Access-Control-Allow-Origin") = "*"
      /\ Header(last.resp, "Access-Control-Allow-Methods") = "GET, OPTIONS"
      /\ Header(last.resp, "Access-Control-Max-Age") = "86400"

(* C4: every error response of either handler (401, 404, 405, 429, 500)      *)
(* carries Access-Control-Allow-Origin: *.                                   *)
C4_ErrorsCarryCors ==
    (last.handled /\ Status \in {401, 404, 405, 429, 500}) =>
      Header(last.resp, "Access-Control-Allow-Origin") = "*"

(* C5: the 200 MISS response of a successful execution has been returned     *)
(* while its cache put is still in flight, and it is the response the client *)
(* has whether the put then succeeds or fails: the settling of a put changes *)
(* no returned response.                                                     *)
C5_ResponseNotTiedToPut ==
    /\ [](lastWrite # "none" => (GatedRequest /\ last.put /\ Status = 200 /\ IsMiss))
    /\ [](lastWrite = "pending" =>
            (Len(pending) > 0 /\ pending[Len(pending)] = <<last.req.path, last.resp>>))
    /\ [][Len(pending') < Len(pending) => last' = last]_vars

C5_Witness ==
    /\ lastWrite = "failed"
    /\ GatedRequest
    /\ Status = 200
    /\ IsMiss
    /\ cache[last.req.path] = NoEntry

(* C6: with a limiter configured, the limiter is called with the             *)
(* CF-Connecting-IP header, or "anonymous" without it, and an authorized     *)
(* request it refuses is answered 429 {"error":"Too Many Requests"} with no  *)
(* cache lookup and no upstream call, cached response or not; with no        *)
(* limiter configured no call is made and no request is answered 429.        *)
C6_RateLimitGate ==
    GatedRequest =>
      /\ (env.RATE_LIMITER /\ SecretAccepted) =>
            last.limiter = (IF last.req.ip = NULL THEN "anonymous" ELSE last.req.ip)
      /\ (env.RATE_LIMITER /\ SecretAccepted /\ ~last.success) =>
            /\ Status = 429
            /\ last.resp.body = JsonBody([error |-> "Too Many Requests"])
            /\ ~last.matched
            /\ ~last.upstream
            /\ ~last.put
      /\ ~env.RATE_LIMITER => (Status # 429 /\ last.limiter = NoCall)

C6_Witness ==
    /\ GatedRequest
    /\ env.RATE_LIMITER
    /\ SecretAccepted
    /\ ~last.success
    /\ last.req.ip = NULL
    /\ last.req.method = "GET"
    /\ last.cached # NoEntry
    /\ Status = 429

(* C11: whatever requests were handled and however the background puts     *)
(* interleave, every entry of the cache, and every put still in flight, is   *)
(* the 200 MISS response of a successful execution of /, /song/<digits> or   *)
(* /artist/<digits>, never a 401, 404, 405, 429, 500 or OPTIONS response;    *)
(* so every response served with X-Proxy-Cache: HIT has status 200.          *)
Routed(k) == isRoot(k) \/ songMatch(k) \/ artistMatch(k)

Cacheable(k, resp) ==
    /\ Routed(k)
    /\ resp.status = 200
    /\ Header(resp, "X-Proxy-Cache") = "MISS"
    /\ DOMAIN resp.body = {"json"}
    /\ "error" \notin DOMAIN resp.body.json

NoPipeline ==
    /\ variant = "gated"
    /\ env = [PROXY_SECRET |-> UNDEFINED, RATE_LIMITER |-> FALSE, GENIUS_ACCESS_TOKEN |-> UNDEFINED]
    /\ cache = [k \in Paths |-> NoEntry]
    /\ pending = <<>>
    /\ last = NoRequest
    /\ lastWrite = "none"

InitFlatten ==
    /\ dom \in {NullNode} \cup NewNodes(1)
    /\ result = <<>>
    /\ flattened = FALSE
    /\ NoPipeline

Grow ==
    /\ ~flattened
    /\ Size(dom) < MaxNodes
    /\ \E d \in SpineDepths(dom, 0) : \E new \in NewNodes(Size(dom) + 1) :
          dom' = AttachRight(dom, d, new)
    /\ UNCHANGED <<result, flattened, pvars>>

Flatten ==
    /\ ~flattened
    /\ result' = flattenGenius(dom)
    /\ flattened' = TRUE
    /\ UNCHANGED <<dom, pvars>>

NextFlatten == Grow \/ Flatten

SpecFlatten == InitFlatten /\ [][NextFlatten]_vars

(* ------------------------------------------------------------------------ *)
(* The document seen from outside the walk: nodes, ancestors and order by    *)
(* preorder number.                                                          *)
RECURSIVE Sub(_)
Sub(node) ==
    IF node.tag \in {"#null", "#text"}
    THEN {node}
    ELSE {node} \cup UNION {Sub(node.children[i]) : i \in 1..Len(node.children)}

Anc(a, n) == a.id < n.id /\ n.id < a.id + Size(a)

BlockTags == {"p", "blockquote"}
InlineTags == {"em", "i", "b", "strong", "a"}

RECURSIVE SortById(_)
SortById(S) ==
    IF S = {}
    THEN <<>>
    ELSE LET m == CHOOSE x \in S : \A y \in S : x.id <= y.id
         IN  <<m>> \o SortById(S \ {m})

Map(f(_), s) == [i \in 1..Len(s) |-> f(s[i])]

LeafText(n) == IF n.tag = "br" THEN "\n" ELSE n.text

(* the text and line breaks below a node, in document order *)
DocText(n) == Map(LeafText, SortById({t \in Sub(n) : t.tag \in {"#text", "br"}}))

HasBlockAncestor(n) == \E a \in Sub(dom) : Anc(a, n) /\ a.tag \in BlockTags
HasInlineAncestor(n) == \E a \in Sub(dom) : Anc(a, n) /\ a.tag \in InlineTags

(* block tags with no block ancestor, and those of them that emit a Block *)
TopBlocks == {e \in Sub(dom) : e.tag \in BlockTags /\ ~HasBlockAncestor(e)}
Emitting == {e \in TopBlocks : ~HasInlineAncestor(e) /\ DocText(e) # <<>>}
NestedBlocks == {n \in Sub(dom) : n.tag \in BlockTags /\ HasBlockAncestor(n)}
Enclosing(n) == CHOOSE e \in TopBlocks : Anc(e, n)

IsImage(r) == r.type = "image"
IsBlock(r) == r.type \in {"paragraph", "blockquote"}
BlockRecs == SelectSeq(result, IsBlock)
ImageRecs == SelectSeq(result, IsImage)
SpanText(sp) == sp.text
BlockOf(e) == [type |-> IF e.tag = "p" THEN "paragraph" ELSE "blockquote", texts |-> DocText(e)]
Shape(r) == [type |-> r.type, texts |-> Map(SpanText, r.spans)]

Contains(big, small) ==
    \E k \in 0..(Len(big) - Len(small)) : SubSeq(big, k + 1, k + Len(small)) = small

(* C7: a p or blockquote tag with a p or blockquote ancestor produces no     *)
(* Block of its own: the Blocks of the output are exactly, in order, those   *)
(* of the emitting block tags that have no block ancestor; and the text of a *)
(* nested block tag appears, in document order, in the spans of the Block    *)
(* of its enclosing emitted block.                                           *)
C7_NestedBlockAbsorbed ==
    flattened =>
      /\ Map(Shape, BlockRecs) = Map(BlockOf, SortById(Emitting))
      /\ \A n \in NestedBlocks :
            Enclosing(n) \in Emitting =>
              \E i \in 1..Len(BlockRecs) :
                 /\ Shape(BlockRecs[i]) = BlockOf(Enclosing(n))
                 /\ Contains(Shape(BlockRecs[i]).texts, DocText(n))

C7_Witness ==
    /\ flattened
    /\ \E n \in NestedBlocks :
          /\ Enclosing(n) \in Emitting
          /\ \E t \in Sub(n) : t.tag = "#text"
          /\ DocText(n) # DocText(Enclosing(n))

(* ------------------------------------------------------------------------ *)
(* Document positions: an img stands at its own place, a Block at the end of *)
(* the block tag that emits it (after everything the tag contains).          *)
Imgs == {n \in Sub(dom) : n.tag = "img"}
Pos(n) == IF n.tag = "img" THEN 2 * n.id ELSE 2 * (n.id + Size(n)) - 1

RECURSIVE SortByPos(_)
SortByPos(S) ==
    IF S = {}
    THEN <<>>
    ELSE LET m == CHOOSE x \in S : \A y \in S : Pos(x) <= Pos(y)
         IN  <<m>> \o SortByPos(S \ {m})

RecordOf(n) ==
    IF n.tag = "img"
    THEN [type |-> "image", url |-> n.attributes.src, alt |-> n.attributes.alt,
          width |-> n.attributes.width, height |-> n.attributes.height]
    ELSE BlockOf(n)

Outline(r) == IF IsImage(r) THEN r ELSE Shape(r)

SpanFields == {"text", "styles", "link"}

(* C8: every img tag, at any depth, yields exactly one image record of the   *)
(* top-level output; image records keep the document order of their tags and *)
(* stand among the Block records by document position; no span of a Block is *)
(* an image record.                                                          *)
C8_ImagesInDocumentOrder ==
    flattened =>
      /\ ImageRecs = Map(RecordOf, SortById(Imgs))
      /\ Map(Outline, result) = Map(RecordOf, SortByPos(Imgs \cup Emitting))
      /\ \A i \in 1..Len(BlockRecs) : \A j \in 1..Len(BlockRecs[i].spans) :
            DOMAIN BlockRecs[i].spans[j] = SpanFields

C8_Witness ==
    /\ flattened
    /\ \E g \in Imgs :
          /\ \E n \in NestedBlocks : Anc(n, g) /\ Enclosing(n) \in Emitting
          /\ \E k \in 1..Len(result) : IsImage(result[k]) /\ result[k].url = g.attributes.src
    /\ Len(BlockRecs) > 0

(* C9: the link of a text span is the href of the nearest enclosing a tag of *)
(* its text (undefined when that tag has no href attribute), and null when   *)
(* the text has no enclosing a tag.                                          *)
Anchors(t) == {a \in Sub(dom) : a.tag = "a" /\ Anc(a, t)}
NearestAnchor(t) == CHOOSE a \in Anchors(t) : \A o \in Anchors(t) : o.id <= a.id
LinkOf(t) == IF Anchors(t) = {} THEN NULL ELSE Attr(NearestAnchor(t), "href")
TextNodes == {t \in Sub(dom) : t.tag = "#text"}

RECURSIVE Concat(_)
Concat(ss) == IF ss = <<>> THEN <<>> ELSE Head(ss) \o Concat(Tail(ss))

Kept == {t \in Sub(dom) : t.tag \in {"#text", "br"} /\ \E e \in Emitting : Anc(e, t)}
Dropped == {t \in Sub(dom) : t.tag \in {"#text", "br"} /\ ~\E e \in Emitting : Anc(e, t)}
OutputTexts == Concat(Map(LAMBDA r : Map(SpanText, r.spans), BlockRecs))

C10_OrphanTextDropped ==
    flattened =>
      /\ \A k \in 1..Len(result) : IsImage(result[k]) \/ IsBlock(result[k])
      /\ Len(BlockRecs) = Cardinality(Emitting)
      /\ Len(ImageRecs) = Cardinality(Imgs)
      /\ OutputTexts = Map(LeafText, SortById(Kept))
      /\ \A t \in Dropped : t.tag = "#text" =>
            \A k \in 1..Len(OutputTexts) : OutputTexts[k] # t.text

C10_Witness ==
    /\ flattened
    /\ \E t \in Dropped : t.tag = "#text" /\ HasBlockAncestor(t) /\ HasInlineAncestor(t)
    /\ \E t \in Dropped : t.tag = "br"
====
